---- MODULE Spec2Model ----
(***************************************************************************)
(* A model of the compliance analyzer: analyzer.py (class Analysis: rule   *)
(* loading, load_documents, rule_based_scan, assess_risk_level, ask_query, *)
(* analyze_file), the Streamlit page app.py and the evaluator of           *)
(* evaluation.py that drive it.                                            *)
(*                                                                         *)
(* Strings whose content the code inspects (rule ids, patterns, document   *)
(* text) are sequences of one-character strings.                           *)
(***************************************************************************)
EXTENDS Integers, Sequences, FiniteSets, TLC

VARIABLES
    \* ---- the Analysis object (self) and the caller's view of construction
    analyzer,        \* "none" | "ready" | "init_failed"
    regex_rules,     \* self.regex_rules: what json.load returned
    memory,          \* self.memory: the exchanges saved so far (document names)
    raw_text,        \* self.raw_text, Unset before the first successful load
    vector_store,    \* self.vector_store: name of the indexed document, or "None"
    \* ---- one analyze_file call
    pc,              \* position in analyze_file / its caller
    file,            \* the document handed to analyze_file
    rule_violations, \* local of analyze_file
    risk_level,      \* local of analyze_file
    outcome,         \* what the caller got: NoOutcome, a result record or an error
    \* ---- one rule_based_scan call
    scan_ret,        \* who called rule_based_scan
    rule_idx,        \* position of the outer loop in regex_rules.items()
    matches,         \* the matches of the current rule not yet visited
    flagged,         \* local list of rule_based_scan
    spans,           \* for each element of flagged: <<rule index, start, end>>
    \* ---- the summary step (agent.run)
    seen_memory,     \* the memory the agent was given when ask_query started
    tool_calls,      \* tools the agent has run in this ask_query
    \* ---- observers
    judge_calls,     \* llm.invoke calls made by rule_based_scan in this analyze_file
    judge_failed,    \* whether one of them raised
    scanned,         \* whether re.finditer ran in this analyze_file
    summary_asked,   \* whether ask_query was entered in this analyze_file
    computed,        \* findings and risk computed by this analyze_file, or NoOutcome
    \* ---- the callers
    caller,          \* "app" | "evaluator" | "none"
    session_results, \* st.session_state.results
    attempt,         \* outcome of the latest Analyze press: "none" | "ok" | "failed"
    display,         \* what the page shows below the button: NoOutcome or a result
    analyses,        \* analyze_file calls started so far
    \* ---- files and results of the callers
    tmp_files,       \* temporary document files the caller wrote and not yet removed
    eval_results,    \* len(self.results) of the evaluator
    report,          \* whether generate_report ran
    \* ---- one _extract_context call
    ctx              \* its arguments and its result

selfVars  == <<analyzer, regex_rules, memory, raw_text, vector_store>>
frameVars == <<pc, file, rule_violations, risk_level, outcome>>
scanVars  == <<scan_ret, rule_idx, matches, flagged, spans>>
agentVars == <<seen_memory, tool_calls>>
obsVars   == <<judge_calls, judge_failed, scanned, summary_asked, computed>>
callVars  == <<caller, session_results, attempt, display, analyses>>
sideVars  == <<tmp_files, eval_results, report, ctx>>
vars == <<selfVars, frameVars, scanVars, agentVars, obsVars, callVars, sideVars>>

(***************************************************************************)
(* Bounds of the model.                                                    *)
(***************************************************************************)
MaxViolations == 3      \* longest finding list handed to assess_risk_level
MaxTextLen == 3         \* longest text scanned exhaustively
MaxPatLen == 1          \* longest pattern scanned exhaustively
MaxToolCalls == 1       \* tools the agent may run in one ask_query
MaxAnalyses == 2        \* analyze_file calls in one run
MaxWindow == 2          \* largest window tried besides the default one
MaxReruns == 2          \* temporary copies page reruns may pile up

Unset == "Unset"
NoCtx == [text |-> <<>>, start |-> 0, end |-> 0, window |-> 0, result |-> Unset]
NoOutcome == [kind |-> "none"]

(***************************************************************************)
(* Characters and strings.                                                 *)
(***************************************************************************)
\* str.lower() / re.IGNORECASE on one character
LowerChar(c) ==
    CASE c = "A" -> "a"
      [] c = "B" -> "b"
      [] c = "C" -> "c"
      [] c = "D" -> "d"
      [] c = "E" -> "e"
      [] c = "S" -> "s"
      [] OTHER -> c

\* str.lower()
Lower(s) == [i \in 1..Len(s) |-> LowerChar(s[i])]

\* Python's `sub in s` on strings
Contains(s, sub) ==
    \E i \in 0..(Len(s) - Len(sub)) : SubSeq(s, i + 1, i + Len(sub)) = sub

\* Python's text[left:right] for 0 <= left, right <= len(text)
Slice(text, left, right) == SubSeq(text, left + 1, right)

Max(a, b) == IF a >= b THEN a ELSE b
Min(a, b) == IF a <= b THEN a ELSE b

s_breach == <<"b","r","e","a","c","h">>
s_encryption == <<"e","n","c","r","y","p","t","i","o","n">>
s_consent == <<"c","o","n","s","e","n","t">>
s_data_sharing == <<"d","a","t","a"," ","s","h","a","r","i","n","g">>

(***************************************************************************)
(* assess_risk_level                                                       *)
(***************************************************************************)
weight_mutant(v) ==
    LET rule == Lower(v.rule)
    IN  IF Contains(rule, s_consent) \/ Contains(rule, s_data_sharing) THEN 2
        ELSE IF Contains(rule, s_breach) \/ Contains(rule, s_encryption) THEN 3
        ELSE 1

\* the body of the for loop: what one finding adds to risk_score
weight(v) ==
    LET rule == Lower(v.rule)
    IN  IF Contains(rule, s_breach) \/ Contains(rule, s_encryption) THEN 3
        ELSE IF Contains(rule, s_consent) \/ Contains(rule, s_data_sharing) THEN 2
        ELSE 1

RECURSIVE risk_score_mutant(_)
risk_score_mutant(violations) ==
    IF violations = <<>> THEN 0
    ELSE IF weight(violations[Len(violations)]) = 1 THEN 1
    ELSE risk_score_mutant(SubSeq(violations, 1, Len(violations) - 1))
         + weight(violations[Len(violations)])

RECURSIVE risk_score(_)
risk_score(violations) ==
    IF violations = <<>> THEN 0
    ELSE risk_score(SubSeq(violations, 1, Len(violations) - 1))
         + weight(violations[Len(violations)])

level_of_mutant(score) ==
    IF score > 6 THEN "High"
    ELSE IF score >= 3 THEN "Medium"
    ELSE "Low"

level_of_eq_mutant(score) ==
    IF score = 6 THEN "High"
    ELSE IF score >= 3 THEN "Medium"
    ELSE "Low"

level_of(score) ==
    IF score >= 6 THEN "High"
    ELSE IF score >= 3 THEN "Medium"
    ELSE "Low"

assess_risk_level(violations) == level_of(risk_score(violations))

(***************************************************************************)
(* Regular expressions: literals, alternation "|" and the group opener "(" *)
(* (which, never closed here, is what makes a pattern fail to compile).    *)
(***************************************************************************)
\* whether re.compile accepts the pattern
Compiles(pattern) == \A i \in 1..Len(pattern) : pattern[i] # "("

\* the alternatives of a pattern, in their order
RECURSIVE Alternatives(_)
Alternatives(pattern) ==
    IF \A i \in 1..Len(pattern) : pattern[i] # "|" THEN <<pattern>>
    ELSE LET k == CHOOSE i \in 1..Len(pattern) :
                      pattern[i] = "|" /\ \A j \in 1..(i - 1) : pattern[j] # "|"
         IN  <<SubSeq(pattern, 1, k - 1)>>
             \o Alternatives(SubSeq(pattern, k + 1, Len(pattern)))

\* alt matches text at offset s, ignoring case
MatchesAt(alt, text, s) ==
    /\ s + Len(alt) <= Len(text)
    /\ \A k \in 1..Len(alt) : LowerChar(text[s + k]) = LowerChar(alt[k])

\* the alternatives that may match at s: with must_advance set, an empty
\* match at the position the search started from is rejected
Admissible(alts, text, s, pos, must_advance) ==
    {i \in 1..Len(alts) :
        /\ MatchesAt(alts[i], text, s)
        /\ ~(must_advance /\ s = pos /\ Len(alts[i]) = 0)}

\* one search of the scanner: the leftmost start at or after pos, and there
\* the first alternative; <<>> when there is none
Search(alts, text, pos, must_advance) ==
    LET starts == {s \in pos..Len(text) :
                      Admissible(alts, text, s, pos, must_advance) # {}}
    IN  IF starts = {} THEN <<>>
        ELSE LET s == CHOOSE x \in starts : \A y \in starts : x <= y
                 adm == Admissible(alts, text, s, pos, must_advance)
                 i == CHOOSE x \in adm : \A y \in adm : x <= y
             IN  <<s, s + Len(alts[i])>>

RECURSIVE finditer_from(_, _, _, _)
finditer_from(alts, text, pos, must_advance) ==
    LET m == Search(alts, text, pos, must_advance)
    IN  IF m = <<>> THEN <<>>
        ELSE <<m>> \o finditer_from(alts, text, m[2], m[1] = m[2])

finditer_mutant(pattern, text) ==
    LET all == finditer_from(Alternatives(pattern), text, 0, FALSE)
    IN  IF all = <<>> THEN <<>> ELSE <<all[1]>>

\* re.finditer(pattern, text, flags=re.IGNORECASE): the spans <<start, end>>
\* of the matches, in the order the iterator yields them
finditer(pattern, text) == finditer_from(Alternatives(pattern), text, 0, FALSE)

(***************************************************************************)
(* _extract_context                                                        *)
(***************************************************************************)
DefaultWindow == 100

extract_context_mutant(text, start, end, window) ==
    LET left == Max(start - window, 0)
        right == Min(end + window, Len(text) - 1)
    IN  Slice(text, left, right)

extract_context(text, start, end, window) ==
    LET left == Max(start - window, 0)
        right == Min(end + window, Len(text))
    IN  Slice(text, left, right)

(***************************************************************************)
(* Inputs: rule ids, rule files, documents, judgments.                     *)
(***************************************************************************)
id_data_breach == <<"d","a","t","a","_","b","r","e","a","c","h">>
id_Data_Breach == <<"D","a","t","a","_","B","r","e","a","c","h">>
id_encryption_missing ==
    <<"e","n","c","r","y","p","t","i","o","n","_","m","i","s","s","i","n","g">>
id_consent_violation ==
    <<"c","o","n","s","e","n","t","_","v","i","o","l","a","t","i","o","n">>
id_breach_consent == <<"b","r","e","a","c","h","_","c","o","n","s","e","n","t">>
id_data_sharing == <<"d","a","t","a","_","s","h","a","r","i","n","g">>
id_Data_Sharing_sp == <<"D","a","t","a"," ","S","h","a","r","i","n","g">>
id_privacy_policy_missing ==
    <<"p","r","i","v","a","c","y","_","p","o","l","i","c","y","_",
      "m","i","s","s","i","n","g">>
id_gdpr_violation == <<"g","d","p","r","_","v","i","o","l","a","t","i","o","n">>

RuleIds ==
    {id_data_breach, id_Data_Breach, id_encryption_missing, id_consent_violation,
     id_breach_consent, id_data_sharing, id_Data_Sharing_sp,
     id_privacy_policy_missing, id_gdpr_violation}

\* what llm.invoke may answer
Responses == {"yes", "no"}

Finding(rule, match, context, judgment) ==
    [rule |-> rule, match |-> match, context |-> context, llm_judgment |-> judgment]

\* the sequences over S of length at most n
SeqsUpTo(S, n) == UNION {[1..k -> S] : k \in 0..n}

\* finding lists for assess_risk_level: any rule ids; the matched text and the
\* context either name a breach or do not
RiskFindings ==
    {Finding(r, mc[1], mc[2], "yes") :
        r \in RuleIds,
        mc \in {<<s_breach, s_breach \o <<" ">> \o s_consent>>, <<<<"o","k">>, <<"o","k">>>>}}

Rule(label, pattern) == [label |-> label, pattern |-> pattern]
Mapping(items) == [kind |-> "mapping", items |-> items]
\* a rule file holding a JSON list: json.load succeeds, .items() does not exist
NotAMapping == [kind |-> "list", items |-> <<>>]
\* a rule file that is not JSON: json.load raises
Malformed == [kind |-> "malformed", items |-> <<>>]
NotLoaded == [kind |-> "none", items |-> <<>>]

TextAlphabet == {"a", "A", "b"}
PatAlphabet == {"a", "b", "|", "("}
Texts == SeqsUpTo(TextAlphabet, MaxTextLen)
\* "aa", "a|ab", "ab|a", "|a", "a("
LongerPatterns ==
    {<<"a","a">>, <<"a","|","a","b">>, <<"a","b","|","a">>, <<"|","a">>, <<"a","(">>}
Patterns == SeqsUpTo(PatAlphabet, MaxPatLen) \cup LongerPatterns
\* "a", "ab", "", "(" and "b", "b|aa", "("
FirstPatterns == {<<"a">>, <<"a","b">>, <<>>, <<"(">>}
SecondPatterns == {<<"b">>, <<"b","|","a","a">>, <<"(">>}

\* rule sets scanned exhaustively: one rule with any pattern, or two rules
ScanRuleSets ==
    {Mapping(<<Rule(id_data_breach, p)>>) : p \in Patterns}
    \cup {Mapping(<<Rule(id_data_breach, p), Rule(id_consent_violation, q)>>) :
            p \in FirstPatterns, q \in SecondPatterns}
    \cup {NotAMapping}

RulesOk ==
    Mapping(<<Rule(id_data_breach, <<"a","a">>), Rule(id_consent_violation, <<"b">>)>>)
RulesUncompilable ==
    Mapping(<<Rule(id_data_breach, <<"a","a">>), Rule(id_consent_violation, <<"(">>)>>)
RuleFiles == {RulesOk, RulesUncompilable, NotAMapping, Malformed}

Doc(name, ext, readable, indexable, text) ==
    [name |-> name, ext |-> ext, readable |-> readable, indexable |-> indexable,
     text |-> text]
NoDoc == Doc("", "", FALSE, FALSE, <<>>)
DocClean == Doc("clean", "txt", TRUE, TRUE, <<"a">>)
DocMinor == Doc("minor", "txt", TRUE, TRUE, <<"b">>)
DocBreach == Doc("breach", "txt", TRUE, TRUE, <<"A","a","b">>)
DocEmpty == Doc("empty", "txt", TRUE, FALSE, <<>>)
DocCorrupt == Doc("corrupt", "pdf", FALSE, FALSE, <<"b">>)
DocNotes == Doc("notes", "md", TRUE, TRUE, <<"b">>)

\* the uploader of the page accepts txt, pdf and docx only
AppDocs == {DocClean, DocMinor, DocBreach, DocEmpty, DocCorrupt}
\* the evaluator writes its test cases itself, as .txt files
TestDocs == {DocClean, DocMinor, DocBreach}
\* main() takes any path
MainDocs == AppDocs \cup {DocNotes}

SupportedExt == {"txt", "pdf", "docx"}

(***************************************************************************)
(* Exceptions: nothing in analyzer.py catches one, so whatever is raised   *)
(* inside analyze_file leaves it, and its locals are gone.                 *)
(***************************************************************************)
Error(name) == [kind |-> "error", error |-> name]

Raise(name) ==
    /\ pc' = "raised"
    /\ outcome' = Error(name)

\* the start of an analyze_file call
EnterAnalyze(doc) ==
    /\ pc' = "load"
    /\ file' = doc
    /\ rule_violations' = <<>>
    /\ risk_level' = Unset
    /\ outcome' = NoOutcome
    /\ scan_ret' = "none" /\ rule_idx' = 0 /\ matches' = <<>>
    /\ flagged' = <<>> /\ spans' = <<>>
    /\ seen_memory' = <<>> /\ tool_calls' = 0
    /\ judge_calls' = 0 /\ judge_failed' = FALSE /\ scanned' = FALSE
    /\ summary_asked' = FALSE /\ computed' = NoOutcome
    /\ analyses' = analyses + 1

\* Analysis.__init__ with a rule file json.load accepts
Construct(source) ==
    /\ analyzer' = "ready"
    /\ regex_rules' = source
    /\ memory' = <<>>
    /\ raw_text' = Unset
    /\ vector_store' = "None"

(***************************************************************************)
(* load_documents                                                          *)
(***************************************************************************)
\* the else branch: raise ValueError("Unsupported file type")
LoadUnsupported ==
    /\ pc = "load"
    /\ file.ext \notin SupportedExt
    /\ Raise("ValueError")
    /\ UNCHANGED <<sideVars, selfVars, file, rule_violations, risk_level, scanVars,
                   agentVars, obsVars, callVars>>

\* loader.load() raises
LoadUnreadable ==
    /\ pc = "load"
    /\ file.ext \in SupportedExt
    /\ ~file.readable
    /\ Raise("LoadError")
    /\ UNCHANGED <<sideVars, selfVars, file, rule_violations, risk_level, scanVars,
                   agentVars, obsVars, callVars>>

\* FAISS.from_documents raises, after self.raw_text was assigned
LoadIndexFails ==
    /\ pc = "load"
    /\ file.ext \in SupportedExt
    /\ file.readable
    /\ ~file.indexable
    /\ raw_text' = file.text
    /\ Raise("IndexError")
    /\ UNCHANGED <<sideVars, analyzer, regex_rules, memory, vector_store, file,
                   rule_violations, risk_level, scanVars, agentVars, obsVars,
                   callVars>>

\* the call of rule_based_scan(self.raw_text) on behalf of `who`
StartScan(who) ==
    /\ pc' = "scan"
    /\ scan_ret' = who
    /\ rule_idx' = 0
    /\ matches' = <<>>
    /\ flagged' = <<>>
    /\ spans' = <<>>

LoadOk_mutant ==
    /\ pc = "load"
    /\ raw_text' = file.text
    /\ vector_store' = file.name
    /\ StartScan("analyze_file")
    /\ UNCHANGED <<sideVars, analyzer, regex_rules, memory, file, rule_violations,
                   risk_level, outcome, agentVars, obsVars, callVars>>

\* load_documents returns; analyze_file goes on to line 141
LoadOk ==
    /\ pc = "load"
    /\ file.ext \in SupportedExt
    /\ file.readable
    /\ file.indexable
    /\ raw_text' = file.text
    /\ vector_store' = file.name
    /\ StartScan("analyze_file")
    /\ UNCHANGED <<sideVars, analyzer, regex_rules, memory, file, rule_violations,
                   risk_level, outcome, agentVars, obsVars, callVars>>

(***************************************************************************)
(* rule_based_scan                                                         *)
(***************************************************************************)
\* self.regex_rules.items() on something that is no dict
ScanItemsError ==
    /\ pc = "scan"
    /\ regex_rules.kind # "mapping"
    /\ Raise("AttributeError")
    /\ UNCHANGED <<sideVars, selfVars, file, rule_violations, risk_level, scanVars,
                   agentVars, obsVars, callVars>>

\* the outer loop takes the next rule; re.finditer compiles its pattern
ScanNextRule ==
    /\ pc = "scan"
    /\ regex_rules.kind = "mapping"
    /\ matches = <<>>
    /\ rule_idx < Len(regex_rules.items)
    /\ Compiles(regex_rules.items[rule_idx + 1].pattern)
    /\ rule_idx' = rule_idx + 1
    /\ matches' = finditer(regex_rules.items[rule_idx + 1].pattern, raw_text)
    /\ scanned' = TRUE
    /\ UNCHANGED <<sideVars, selfVars, frameVars, scan_ret, flagged, spans, agentVars,
                   judge_calls, judge_failed, summary_asked, computed, callVars>>

\* re.finditer raises re.error
ScanPatternError ==
    /\ pc = "scan"
    /\ regex_rules.kind = "mapping"
    /\ matches = <<>>
    /\ rule_idx < Len(regex_rules.items)
    /\ ~Compiles(regex_rules.items[rule_idx + 1].pattern)
    /\ Raise("re.error")
    /\ UNCHANGED <<sideVars, selfVars, file, rule_violations, risk_level, scanVars,
                   agentVars, obsVars, callVars>>

ScanMatch_filter_mutant(response) ==
    /\ pc = "scan"
    /\ matches # <<>>
    /\ LET m == Head(matches)
           label == regex_rules.items[rule_idx].label
           matched_text == Slice(raw_text, m[1], m[2])
           context == extract_context(raw_text, m[1], m[2], DefaultWindow)
       IN  IF response = "no"
           THEN UNCHANGED <<flagged, spans>>
           ELSE /\ flagged' = Append(flagged, Finding(label, matched_text, context, response))
                /\ spans' = Append(spans, <<rule_idx, m[1], m[2]>>)
    /\ matches' = Tail(matches)
    /\ judge_calls' = judge_calls + 1
    /\ UNCHANGED <<sideVars, selfVars, frameVars, scan_ret, rule_idx, agentVars,
                   judge_failed, scanned, summary_asked, computed, callVars>>

ScanMatch_mutant(response) ==
    /\ pc = "scan"
    /\ matches # <<>>
    /\ LET m == Head(matches)
           label == regex_rules.items[rule_idx].label
           matched_text == Slice(raw_text, m[1], m[2])
           context == extract_context(raw_text, m[1], m[2], DefaultWindow)
       IN  /\ flagged' = <<Finding(label, matched_text, context, response)>> \o flagged
           /\ spans' = <<<<rule_idx, m[1], m[2]>>>> \o spans
    /\ matches' = Tail(matches)
    /\ judge_calls' = judge_calls + 1
    /\ UNCHANGED <<sideVars, selfVars, frameVars, scan_ret, rule_idx, agentVars,
                   judge_failed, scanned, summary_asked, computed, callVars>>

\* one pass of the inner loop, llm.invoke answering `response`
ScanMatch(response) ==
    /\ pc = "scan"
    /\ matches # <<>>
    /\ LET m == Head(matches)
           label == regex_rules.items[rule_idx].label
           matched_text == Slice(raw_text, m[1], m[2])
           context == extract_context(raw_text, m[1], m[2], DefaultWindow)
       IN  /\ flagged' = Append(flagged, Finding(label, matched_text, context, response))
           /\ spans' = Append(spans, <<rule_idx, m[1], m[2]>>)
    /\ matches' = Tail(matches)
    /\ judge_calls' = judge_calls + 1
    /\ UNCHANGED <<sideVars, selfVars, frameVars, scan_ret, rule_idx, agentVars,
                   judge_failed, scanned, summary_asked, computed, callVars>>

\* one pass of the inner loop, llm.invoke raising
ScanJudgeRaises ==
    /\ pc = "scan"
    /\ matches # <<>>
    /\ judge_calls' = judge_calls + 1
    /\ judge_failed' = TRUE
    /\ Raise("LLMError")
    /\ UNCHANGED <<sideVars, selfVars, file, rule_violations, risk_level, scanVars,
                   agentVars, scanned, summary_asked, computed, callVars>>

\* return flagged, to line 141 or to the tool that called
ScanReturn ==
    /\ pc = "scan"
    /\ regex_rules.kind = "mapping"
    /\ matches = <<>>
    /\ rule_idx = Len(regex_rules.items)
    /\ IF scan_ret = "analyze_file"
       THEN /\ rule_violations' = flagged
            /\ pc' = "assess"
       ELSE /\ rule_violations' = rule_violations
            /\ pc' = "agent"
    /\ UNCHANGED <<sideVars, selfVars, file, risk_level, outcome, scanVars, agentVars,
                   obsVars, callVars>>

(***************************************************************************)
(* analyze_file, lines 142-148                                             *)
(***************************************************************************)
\* risk_level = self.assess_risk_level(rule_violations)
AssessRisk ==
    /\ pc = "assess"
    /\ risk_level' = assess_risk_level(rule_violations)
    /\ computed' = [kind |-> "computed", findings |-> rule_violations,
                    risk |-> risk_level']
    /\ pc' = "summary"
    /\ UNCHANGED <<sideVars, selfVars, file, rule_violations, outcome, scanVars, agentVars,
                   judge_calls, judge_failed, scanned, summary_asked, callVars>>

\* ask_query: agent.run(query) starts, reading the memory it was built with
AskQuery ==
    /\ pc = "summary"
    /\ summary_asked' = TRUE
    /\ seen_memory' = memory
    /\ tool_calls' = 0
    /\ pc' = "agent"
    /\ UNCHANGED <<sideVars, selfVars, file, rule_violations, risk_level, outcome, scanVars,
                   judge_calls, judge_failed, scanned, computed, callVars>>

\* the agent runs ComplianceQA: analysis_chain.run answers from the index and
\* saves the exchange in self.memory
AgentComplianceQA ==
    /\ pc = "agent"
    /\ tool_calls < MaxToolCalls
    /\ tool_calls' = tool_calls + 1
    /\ memory' = Append(memory, vector_store)
    /\ UNCHANGED <<sideVars, analyzer, regex_rules, raw_text, vector_store, frameVars,
                   scanVars, seen_memory, obsVars, callVars>>

\* the agent runs RuleScanner or RiskAssessor: both call
\* self.rule_based_scan(self.raw_text)
AgentScanTool(tool) ==
    /\ pc = "agent"
    /\ tool_calls < MaxToolCalls
    /\ tool_calls' = tool_calls + 1
    /\ StartScan(tool)
    /\ UNCHANGED <<sideVars, selfVars, file, rule_violations, risk_level, outcome,
                   seen_memory, obsVars, callVars>>

\* the model call of the agent raises
AgentRaises ==
    /\ pc = "agent"
    /\ Raise("LLMError")
    /\ UNCHANGED <<sideVars, selfVars, file, rule_violations, risk_level, scanVars,
                   agentVars, obsVars, callVars>>

\* the agent answers and saves the exchange; analyze_file returns its record
AgentFinish ==
    /\ pc = "agent"
    /\ memory' = Append(memory, vector_store)
    /\ outcome' = [kind |-> "result",
                   rule_based_violations |-> rule_violations,
                   ai_summary |-> [doc |-> vector_store, history |-> seen_memory],
                   risk_level |-> risk_level]
    /\ pc' = "returned"
    /\ UNCHANGED <<sideVars, analyzer, regex_rules, raw_text, vector_store, file,
                   rule_violations, risk_level, scanVars, agentVars, obsVars,
                   callVars>>

(***************************************************************************)
(* app.py: the Analyze button and what the page renders below it           *)
(***************************************************************************)
\* lines 83-86 write the temporary copy of the upload on every run of the
\* script; here the button is not pressed, and lines 98-132 render
AppRerun ==
    /\ caller = "app"
    /\ pc = "idle"
    /\ tmp_files < MaxReruns
    /\ tmp_files' = tmp_files + 1
    /\ display' = session_results
    /\ UNCHANGED <<selfVars, frameVars, scanVars, agentVars, obsVars, caller,
                   session_results, attempt, analyses, eval_results, report, ctx>>

\* lines 83-86, then line 90 raises inside the try block: json.load rejects
\* the rule file
AppAnalyzeInitFails(doc) ==
    /\ caller = "app"
    /\ pc = "idle"
    /\ analyses < MaxAnalyses
    /\ tmp_files' = tmp_files + 1
    /\ analyses' = analyses + 1
    /\ Raise("JSONDecodeError")
    /\ UNCHANGED <<selfVars, file, rule_violations, risk_level, scanVars,
                   agentVars, obsVars, session_results, attempt, display, caller,
                   eval_results, report, ctx>>

\* lines 83-86, then lines 90-91: a new Analysis and
\* analyze_file(tmp_path, custom_query)
AppAnalyze(source, doc) ==
    /\ caller = "app"
    /\ pc = "idle"
    /\ analyses < MaxAnalyses
    /\ source.kind # "malformed"
    /\ tmp_files' = tmp_files + 1
    /\ Construct(source)
    /\ EnterAnalyze(doc)
    /\ UNCHANGED <<session_results, attempt, display, caller, eval_results, report,
                   ctx>>

\* lines 92-94 (os.unlink(tmp_path) among them), then lines 98-132 render
\* session_state.results
AppSuccess ==
    /\ caller = "app"
    /\ pc = "returned"
    /\ session_results' = outcome
    /\ attempt' = "ok"
    /\ tmp_files' = tmp_files - 1
    /\ display' = session_results'
    /\ pc' = "idle"
    /\ UNCHANGED <<selfVars, file, rule_violations, risk_level, outcome, scanVars,
                   agentVars, obsVars, caller, analyses, eval_results, report, ctx>>

\* lines 95-96, then lines 98-132 render whatever session_state.results holds
AppExcept ==
    /\ caller = "app"
    /\ pc = "raised"
    /\ attempt' = "failed"
    /\ display' = session_results
    /\ pc' = "idle"
    /\ UNCHANGED <<sideVars, selfVars, file, rule_violations, risk_level, outcome, scanVars,
                   agentVars, obsVars, caller, session_results, analyses>>

(***************************************************************************)
(* evaluation.py: one Analysis for all test cases                          *)
(***************************************************************************)
\* ComplianceEvaluator.__init__: self.analyzer = Analysis(rule_file)
EvalConstruct(source) ==
    /\ caller = "evaluator"
    /\ analyzer = "none"
    /\ pc = "idle"
    /\ IF source.kind = "malformed"
       THEN /\ analyzer' = "init_failed"
            /\ pc' = "stopped"
            /\ outcome' = Error("JSONDecodeError")
            /\ UNCHANGED <<regex_rules, memory, raw_text, vector_store>>
       ELSE /\ Construct(source)
            /\ UNCHANGED <<pc, outcome>>
    /\ UNCHANGED <<sideVars, file, rule_violations, risk_level, scanVars, agentVars,
                   obsVars, callVars>>

\* cleanup_test_file: the file is removed if it exists
cleanup_test_file(n) == IF n > 0 THEN n - 1 ELSE n

\* run_evaluation takes the next test case: evaluate_single_case writes its
\* file (create_test_file) and calls self.analyzer.analyze_file(filename, ...)
EvalNextCase(doc) ==
    /\ caller = "evaluator"
    /\ analyzer = "ready"
    /\ pc = "idle"
    /\ analyses < MaxAnalyses
    /\ tmp_files' = tmp_files + 1
    /\ EnterAnalyze(doc)
    /\ UNCHANGED <<selfVars, session_results, attempt, display, caller,
                   eval_results, report, ctx>>

\* evaluate_single_case returns through its finally block; run_evaluation
\* appends the result and the loop goes on
EvalCaseDone ==
    /\ caller = "evaluator"
    /\ pc = "returned"
    /\ tmp_files' = cleanup_test_file(tmp_files)
    /\ eval_results' = eval_results + 1
    /\ pc' = "idle"
    /\ UNCHANGED <<selfVars, file, rule_violations, risk_level, outcome, scanVars,
                   agentVars, obsVars, callVars, report, ctx>>

EvalCaseRaises_mutant ==
    /\ caller = "evaluator"
    /\ pc = "raised"
    /\ pc' = "stopped"
    /\ UNCHANGED <<selfVars, file, rule_violations, risk_level, outcome, scanVars,
                   agentVars, obsVars, callVars, sideVars>>

\* analyze_file raised: the finally block runs, and run_evaluation catches
\* nothing
EvalCaseRaises ==
    /\ caller = "evaluator"
    /\ pc = "raised"
    /\ tmp_files' = cleanup_test_file(tmp_files)
    /\ pc' = "stopped"
    /\ UNCHANGED <<selfVars, file, rule_violations, risk_level, outcome, scanVars,
                   agentVars, obsVars, callVars, eval_results, report, ctx>>

\* the loop of run_evaluation is through: self.generate_report()
EvalReport ==
    /\ caller = "evaluator"
    /\ analyzer = "ready"
    /\ pc = "idle"
    /\ analyses = MaxAnalyses
    /\ report' = TRUE
    /\ pc' = "done"
    /\ UNCHANGED <<selfVars, file, rule_violations, risk_level, outcome, scanVars,
                   agentVars, obsVars, callVars, tmp_files, eval_results, ctx>>

(***************************************************************************)
(* analyzer.main: one analysis of a path typed by the user                 *)
(***************************************************************************)
MainRun(source, doc) ==
    /\ caller = "main"
    /\ analyzer = "none"
    /\ pc = "idle"
    /\ IF source.kind = "malformed"
       THEN /\ analyzer' = "init_failed"
            /\ pc' = "stopped"
            /\ outcome' = Error("JSONDecodeError")
            /\ UNCHANGED <<regex_rules, memory, raw_text, vector_store, file,
                           rule_violations, risk_level, scanVars, agentVars,
                           obsVars, analyses>>
       ELSE /\ Construct(source)
            /\ EnterAnalyze(doc)
    /\ UNCHANGED <<sideVars, session_results, attempt, display, caller>>

\* main prints the result, or the exception ends the process
MainEnds ==
    /\ caller = "main"
    /\ pc \in {"returned", "raised"}
    /\ pc' = "stopped"
    /\ UNCHANGED <<sideVars, selfVars, file, rule_violations, risk_level, outcome, scanVars,
                   agentVars, obsVars, callVars>>

(***************************************************************************)
(* Specifications                                                          *)
(***************************************************************************)
InitCommon ==
    /\ memory = <<>>
    /\ vector_store = "None"
    /\ file = NoDoc
    /\ risk_level = Unset
    /\ outcome = NoOutcome
    /\ rule_idx = 0 /\ matches = <<>>
    /\ flagged = <<>> /\ spans = <<>>
    /\ seen_memory = <<>> /\ tool_calls = 0
    /\ judge_calls = 0 /\ judge_failed = FALSE /\ scanned = FALSE
    /\ summary_asked = FALSE /\ computed = NoOutcome
    /\ session_results = NoOutcome /\ attempt = "none" /\ display = NoOutcome
    /\ analyses = 0
    /\ tmp_files = 0 /\ eval_results = 0 /\ report = FALSE

\* the program: one of its three entry points is started
Init ==
    /\ InitCommon
    /\ ctx = NoCtx
    /\ caller \in {"app", "evaluator", "main"}
    /\ analyzer = "none"
    /\ regex_rules = NotLoaded
    /\ raw_text = Unset
    /\ rule_violations = <<>>
    /\ scan_ret = "none"
    /\ pc = "idle"

Analyze ==
    \/ LoadUnsupported \/ LoadUnreadable \/ LoadIndexFails \/ LoadOk
    \/ ScanItemsError \/ ScanNextRule \/ ScanPatternError
    \/ (\E response \in Responses : ScanMatch(response))
    \/ ScanJudgeRaises \/ ScanReturn
    \/ AssessRisk \/ AskQuery
    \/ AgentComplianceQA
    \/ (\E tool \in {"tool_rule", "tool_risk"} : AgentScanTool(tool))
    \/ AgentRaises \/ AgentFinish

Next ==
    \/ Analyze
    \/ (\E doc \in AppDocs : AppAnalyzeInitFails(doc))
    \/ (\E source \in RuleFiles, doc \in AppDocs : AppAnalyze(source, doc))
    \/ AppSuccess \/ AppExcept \/ AppRerun
    \/ (\E source \in RuleFiles : EvalConstruct(source))
    \/ (\E doc \in TestDocs : EvalNextCase(doc))
    \/ EvalCaseDone \/ EvalCaseRaises \/ EvalReport
    \/ (\E source \in RuleFiles, doc \in MainDocs : MainRun(source, doc))
    \/ MainEnds

Spec == Init /\ [][Next]_vars

\* rule_based_scan on every small rule set and text, and the risk level of
\* what it returns
InitScan ==
    /\ InitCommon
    /\ ctx = NoCtx
    /\ caller = "none"
    /\ analyzer = "ready"
    /\ regex_rules \in ScanRuleSets
    /\ raw_text \in Texts
    /\ rule_violations = <<>>
    /\ scan_ret = "analyze_file"
    /\ pc = "scan"

NextScan ==
    \/ ScanItemsError \/ ScanNextRule \/ ScanPatternError
    \/ (\E response \in Responses : ScanMatch(response))
    \/ ScanJudgeRaises \/ ScanReturn
    \/ AssessRisk

SpecScan == InitScan /\ [][NextScan]_vars

\* assess_risk_level on every short finding list
InitRisk ==
    /\ InitCommon
    /\ ctx = NoCtx
    /\ caller = "none"
    /\ analyzer = "ready"
    /\ regex_rules = NotLoaded
    /\ raw_text = Unset
    /\ rule_violations \in SeqsUpTo(RiskFindings, MaxViolations)
    /\ scan_ret = "analyze_file"
    /\ pc = "assess"

NextRisk == AssessRisk

SpecRisk == InitRisk /\ [][NextRisk]_vars

\* assess_risk_level on finding lists over one rule id of each kind: two ids
\* of weight 3 (one of them also naming consent), one of weight 2, two of
\* weight 1 (one of them "data_sharing", which "data sharing" does not match)
OrderFindings ==
    {Finding(r, <<"o","k">>, <<"o","k">>, "yes") :
        r \in {id_data_breach, id_breach_consent, id_consent_violation,
               id_data_sharing, id_privacy_policy_missing}}

InitRiskOrder ==
    /\ InitCommon
    /\ ctx = NoCtx
    /\ caller = "none"
    /\ analyzer = "ready"
    /\ regex_rules = NotLoaded
    /\ raw_text = Unset
    /\ rule_violations \in SeqsUpTo(OrderFindings, MaxViolations)
    /\ scan_ret = "analyze_file"
    /\ pc = "assess"

NextRiskOrder == AssessRisk

SpecRiskOrder == InitRiskOrder /\ [][NextRiskOrder]_vars

\* _extract_context on every small text, span and window, and on a text of 50
\* characters with the span 10..20 and the default window
Text50 == [i \in 1..50 |-> IF i % 3 = 0 THEN "b" ELSE IF i % 3 = 1 THEN "a" ELSE "A"]
Windows == 0..MaxWindow \cup {DefaultWindow}
CtxInputs ==
    {[text |-> t, start |-> st, end |-> en, window |-> w, result |-> Unset] :
        t \in Texts, st \in 0..MaxTextLen, en \in 0..MaxTextLen, w \in Windows}

\* a call of _extract_context(text, start, end, window)
ExtractContext ==
    /\ pc = "extract"
    /\ ctx' = [ctx EXCEPT !.result = extract_context(ctx.text, ctx.start, ctx.end,
                                                      ctx.window)]
    /\ pc' = "extracted"
    /\ UNCHANGED <<selfVars, file, rule_violations, risk_level, outcome, scanVars,
                   agentVars, obsVars, callVars, tmp_files, eval_results, report>>

InitContext ==
    /\ InitCommon
    /\ caller = "none"
    /\ analyzer = "ready"
    /\ regex_rules = NotLoaded
    /\ raw_text = Unset
    /\ rule_violations = <<>>
    /\ scan_ret = "none"
    /\ pc = "extract"
    /\ \/ /\ ctx \in CtxInputs
          /\ ctx.start <= ctx.end
          /\ ctx.end <= Len(ctx.text)
       \/ ctx = [text |-> Text50, start |-> 10, end |-> 20,
                 window |-> DefaultWindow, result |-> Unset]

NextContext == ExtractContext

SpecContext == InitContext /\ [][NextContext]_vars

(***************************************************************************)
(* Properties                                                              *)
(***************************************************************************)
C1_Heavy(id) ==
    Contains(Lower(id), s_breach) \/ Contains(Lower(id), s_encryption)
C1_Middle(id) ==
    /\ ~C1_Heavy(id)
    /\ Contains(Lower(id), s_consent) \/ Contains(Lower(id), s_data_sharing)
C1_Score(L) ==
    3 * Cardinality({i \in DOMAIN L : C1_Heavy(L[i].rule)})
    + 2 * Cardinality({i \in DOMAIN L : C1_Middle(L[i].rule)})
    + Cardinality({i \in DOMAIN L : ~C1_Heavy(L[i].rule) /\ ~C1_Middle(L[i].rule)})
C1_Ids(L) == [i \in DOMAIN L |-> L[i].rule]

\* C1: the level assess_risk_level returns is fixed by the total score s of the
\* rule ids alone (3 for an id containing "breach" or "encryption", else 2 for
\* "consent" or "data sharing", else 1): High iff s >= 6, Medium iff
\* 3 <= s < 6, Low iff s < 3; the empty list gives Low, ["data_breach"] Medium,
\* ["data_breach", "data_breach"] High, "breach_consent" counts 3 and
\* "data_sharing" counts 1.
C1_RiskLevelByScore ==
    pc = "summary" =>
        LET s == C1_Score(rule_violations)
            ids == C1_Ids(rule_violations)
        IN  /\ (risk_level = "High") = (s >= 6)
            /\ (risk_level = "Medium") = (3 <= s /\ s < 6)
            /\ (risk_level = "Low") = (s < 3)
            /\ ids = <<>> => risk_level = "Low"
            /\ ids = <<id_data_breach>> => risk_level = "Medium"
            /\ ids = <<id_data_breach, id_data_breach>> => risk_level = "High"
            /\ ids = <<id_breach_consent, id_breach_consent>> => risk_level = "High"
            /\ ids = <<id_data_sharing, id_data_sharing>> => risk_level = "Low"
            /\ ids = <<id_Data_Sharing_sp, id_data_sharing>> => risk_level = "Medium"

\* two breach findings, whose matched text does not mention a breach, score
\* exactly 6 and are rated High
C1_Witness ==
    /\ pc = "summary"
    /\ C1_Ids(rule_violations) = <<id_data_breach, id_Data_Breach>>
    /\ \A i \in DOMAIN rule_violations : rule_violations[i].match = <<"o","k">>
    /\ risk_level = "High"

\* <<s, e>> is a case-insensitive match of the pattern in the text
C2_IsMatch(pattern, text, s, e) ==
    /\ 0 <= s /\ s <= e /\ e <= Len(text)
    /\ \E i \in DOMAIN Alternatives(pattern) :
          /\ Len(Alternatives(pattern)[i]) = e - s
          /\ Lower(Slice(text, s, e)) = Lower(Alternatives(pattern)[i])
\* the findings of rule i, as positions of flagged
C2_Of(i) == {k \in DOMAIN spans : spans[k][1] = i}
\* two spans share a character, or an empty one touches the other
C2_Meet(s1, e1, s2, e2) ==
    \/ s1 < e2 /\ s2 < e1
    \/ s1 = e1 /\ s2 <= s1 /\ s1 <= e2
    \/ s2 = e2 /\ s1 <= s2 /\ s2 <= e1

\* C2: a scan that returns has one finding per non-overlapping case-insensitive
\* match of each rule's pattern: per rule as many findings as the pattern has
\* matches (none for a pattern that matches nowhere), every finding's matched
\* text is the matched substring of the text, the matches of one rule do not
\* overlap, and no match of the pattern lies clear of all of them.
C2_OneFindingPerMatch ==
    (pc = "assess" /\ scan_ret = "analyze_file") =>
        /\ Len(rule_violations) = Len(spans)
        /\ \A i \in DOMAIN regex_rules.items :
              LET pattern == regex_rules.items[i].pattern
              IN  /\ Cardinality(C2_Of(i)) = Len(finditer(pattern, raw_text))
                  /\ (~\E s, e \in 0..Len(raw_text) : C2_IsMatch(pattern, raw_text, s, e))
                        => C2_Of(i) = {}
                  /\ \A k \in C2_Of(i) :
                        /\ C2_IsMatch(pattern, raw_text, spans[k][2], spans[k][3])
                        /\ rule_violations[k].rule = regex_rules.items[i].label
                        /\ rule_violations[k].match
                              = Slice(raw_text, spans[k][2], spans[k][3])
                  /\ \A k, l \in C2_Of(i) :
                        k < l => /\ spans[k][3] <= spans[l][2]
                                 /\ <<spans[k][2], spans[k][3]>>
                                       # <<spans[l][2], spans[l][3]>>
                  /\ \A s, e \in 0..Len(raw_text) :
                        C2_IsMatch(pattern, raw_text, s, e) =>
                            \E k \in C2_Of(i) :
                                C2_Meet(s, e, spans[k][2], spans[k][3])
        /\ Len(rule_violations)
              = Cardinality(UNION {C2_Of(i) : i \in DOMAIN regex_rules.items})

\* "aa" matched twice in a text of mixed case, and a second rule without a match
C2_Witness ==
    /\ pc = "assess"
    /\ Len(regex_rules.items) = 2
    /\ Cardinality(C2_Of(1)) = 2
    /\ C2_Of(2) = {}
    /\ \E k \in C2_Of(1) : rule_violations[k].match = <<"A">>
    /\ \E k \in C2_Of(1) : rule_violations[k].match = <<"a">>

\* <<rule, start, end>> of one finding comes before that of another
C3_Before(x, y) ==
    \/ x[1] < y[1]
    \/ x[1] = y[1] /\ x[2] < y[2]
    \/ x[1] = y[1] /\ x[2] = y[2] /\ x[3] < y[3]

\* C3: at every point of a scan, the findings collected so far are in the order
\* of the rules in the rule set and, within one rule, in the order of their
\* positions in the text.
C3_FindingsInRuleThenPositionOrder ==
    pc \in {"scan", "assess"} =>
        /\ Len(flagged) = Len(spans)
        /\ \A k \in DOMAIN flagged :
              /\ flagged[k].rule = regex_rules.items[spans[k][1]].label
              /\ flagged[k].match = Slice(raw_text, spans[k][2], spans[k][3])
        /\ \A k, l \in DOMAIN spans : k < l => C3_Before(spans[k], spans[l])

\* a returned scan with two matches of the first rule and one of the second
C3_Witness ==
    /\ pc = "assess"
    /\ Len(flagged) = 3
    /\ spans[1][1] = 1 /\ spans[2][1] = 1 /\ spans[3][1] = 2
    /\ spans[3][2] < spans[2][2]

\* C4: a judgment call that fails does not end the scan: the scan is not left
\* by an exception, and the match whose judgment failed has its finding in the
\* list like every other match visited.
C4_JudgmentFailureIsNotFatal ==
    judge_failed =>
        /\ pc # "raised"
        /\ Len(flagged) = judge_calls

\* C5: when the summary step fails after scan and risk assessment, the caller
\* gets an error, and with it the findings and the risk level computed for the
\* document.
C5_SummaryFailureKeepsResults ==
    (summary_asked /\ pc = "raised") =>
        /\ outcome.kind = "error"
        /\ "findings" \in DOMAIN outcome
        /\ "risk" \in DOMAIN outcome
        /\ outcome.findings = computed.findings
        /\ outcome.risk = computed.risk

\* the document cannot be loaded: load_documents raises on it
C6_LoadFails(doc) ==
    doc.ext \notin SupportedExt \/ ~doc.readable \/ ~doc.indexable

\* C6: when the document of an analyze_file call cannot be loaded, no rule is
\* matched, no judgment is asked for, no summary is requested, nothing is
\* computed, and once load_documents is left the caller has an error and no
\* result record.
C6_LoadFailureAbortsBeforeScan ==
    (file # NoDoc /\ C6_LoadFails(file)) =>
        /\ ~scanned
        /\ judge_calls = 0
        /\ ~summary_asked
        /\ computed = NoOutcome
        /\ flagged = <<>>
        /\ pc \in {"load", "raised", "idle", "stopped"}
        /\ pc # "load" => outcome.kind = "error"

\* the page has reported the failure of an unreadable upload, after an earlier
\* document was analyzed to the end
C6_Witness ==
    /\ caller = "app"
    /\ file = DocCorrupt
    /\ outcome = Error("LoadError")
    /\ attempt = "failed"
    /\ analyses = 2
    /\ session_results.kind = "result"

\* C7: an analyzer that was constructed holds a mapping whose patterns all
\* compile, and no scan ever fails on the rule set.
C7_RulesValidatedAtConstruction ==
    /\ analyzer = "ready" =>
          /\ regex_rules.kind = "mapping"
          /\ \A i \in DOMAIN regex_rules.items : Compiles(regex_rules.items[i].pattern)
    /\ outcome.kind = "error" => outcome.error \notin {"re.error", "AttributeError"}

\* C8: analyze_file returns a record only when every step succeeded, and the
\* page shows no risk level and no findings when the latest Analyze failed.
C8_FailureIsNotShownAsResult ==
    /\ outcome.kind = "result" =>
          /\ ~judge_failed
          /\ scanned \/ regex_rules.items = <<>>
          /\ summary_asked
          /\ vector_store = file.name
    /\ attempt = "failed" => display = NoOutcome

\* C9: the summary step of an analysis works on the text and the index of its
\* own document and starts from the conversation memory of a fresh analyzer.
C9_NoStateAcrossDocuments ==
    pc = "agent" =>
        /\ raw_text = file.text
        /\ vector_store = file.name
        /\ computed.findings = rule_violations
        /\ seen_memory = <<>>

\* C10: when analyze_file returns, the judgment was invoked as often as the
\* result has findings.
C10_OneJudgmentPerFinding ==
    pc = "returned" => judge_calls = Len(outcome.rule_based_violations)

\* the rearrangements of a list
RECURSIVE C11_Perms(_)
\* every rearrangement of the list L
C11_Perms(L) ==
    IF L = <<>> THEN {<<>>}
    ELSE UNION {{<<L[i]>> \o P :
                    P \in C11_Perms(SubSeq(L, 1, i - 1) \o SubSeq(L, i + 1, Len(L)))} :
                i \in DOMAIN L}

\* C11: the score and the level assess_risk_level gives a finding list are
\* those it gives every rearrangement of the list.
C11_RiskIsOrderInsensitive ==
    pc = "summary" =>
        \A P \in C11_Perms(rule_violations) :
            /\ risk_score(P) = risk_score(rule_violations)
            /\ assess_risk_level(P) = risk_level

\* three findings of three different weights, rated High
C11_Witness ==
    /\ pc = "summary"
    /\ C1_Ids(rule_violations)
          = <<id_privacy_policy_missing, id_data_breach, id_consent_violation>>
    /\ Cardinality(C11_Perms(rule_violations)) = 6
    /\ risk_level = "High"

C14_Rank(level) ==
    CASE level = "Low" -> 0
      [] level = "Medium" -> 1
      [] level = "High" -> 2

\* C14: the level of a finding list with one more finding appended is never
\* below the level of the list, Low < Medium < High.
C14_RiskIsMonotone ==
    pc = "summary" =>
        \A f \in OrderFindings :
            C14_Rank(assess_risk_level(Append(rule_violations, f)))
                >= C14_Rank(risk_level)

\* a list rated High to which a finding is appended, and one rated Medium that
\* one more finding lifts to High
C14_Witness ==
    /\ pc = "summary"
    /\ risk_level = "High"
    /\ risk_score(rule_violations) = 6
    /\ \E f \in OrderFindings :
          assess_risk_level(Append(rule_violations, f)) = "High"
    /\ \E f \in OrderFindings :
          /\ assess_risk_level(SubSeq(rule_violations, 1, 1)) = "Medium"
          /\ assess_risk_level(Append(SubSeq(rule_violations, 1, 1), f)) = "High"

\* a finding without its judgment
C13_Bare(v) == [rule |-> v.rule, match |-> v.match, context |-> v.context]
C13_Strip(L) == [k \in DOMAIN L |-> C13_Bare(L[k])]
\* the findings with every judgment replaced by r
C13_Rejudged(L, r) ==
    [k \in DOMAIN L |-> Finding(L[k].rule, L[k].match, L[k].context, r)]
\* what rules and text alone determine: per rule, in order, one entry per match
C13_OfRule(rule, text) ==
    LET ms == finditer(rule.pattern, text)
    IN  [k \in DOMAIN ms |->
            [rule |-> rule.label,
             match |-> Slice(text, ms[k][1], ms[k][2]),
             context |-> extract_context(text, ms[k][1], ms[k][2], DefaultWindow)]]
RECURSIVE C13_Determined(_, _)
C13_Determined(items, text) ==
    IF items = <<>> THEN <<>>
    ELSE C13_OfRule(Head(items), text) \o C13_Determined(Tail(items), text)

\* C13: whatever the judgments were, the findings a scan returns are, judgment
\* aside, the list the rules and the text determine (same number, order, rule
\* ids, matched texts and contexts), and the risk level computed from them is
\* the one any other judgments would have given.
C13_JudgmentIsEnrichmentOnly ==
    (pc \in {"assess", "summary"} /\ scan_ret = "analyze_file") =>
        /\ C13_Strip(rule_violations) = C13_Determined(regex_rules.items, raw_text)
        /\ pc = "summary" =>
              \A r \in Responses \cup {"error"} :
                  risk_level = assess_risk_level(C13_Rejudged(rule_violations, r))

\* a scan that returned two findings judged differently, and their risk level
C13_Witness ==
    /\ pc = "summary"
    /\ scan_ret = "analyze_file"
    /\ Len(rule_violations) = 2
    /\ rule_violations[1].llm_judgment = "yes"
    /\ rule_violations[2].llm_judgment = "no"
    /\ risk_level = "High"

\* C12: for 0 <= start <= end <= len(text), _extract_context returns the
\* characters of text from max(start - window, 0) up to, not including,
\* min(end + window, len(text)): it holds text[start:end], is at most
\* (end - start) + 2 * window long, and is the whole text for a text of 50
\* characters, start 10, end 20 and window 100.
C12_ContextIsClampedWindow ==
    pc = "extracted" =>
        LET n == Len(ctx.text)
            lo == IF ctx.start - ctx.window < 0 THEN 0 ELSE ctx.start - ctx.window
            hi == IF ctx.end + ctx.window > n THEN n ELSE ctx.end + ctx.window
        IN  /\ Len(ctx.result) = hi - lo
            /\ \A k \in 1..(hi - lo) : ctx.result[k] = ctx.text[lo + k]
            /\ \A k \in 1..(ctx.end - ctx.start) :
                  ctx.result[ctx.start - lo + k] = ctx.text[ctx.start + k]
            /\ Len(ctx.result) <= (ctx.end - ctx.start) + 2 * ctx.window
            /\ (n = 50 /\ ctx.start = 10 /\ ctx.end = 20 /\ ctx.window = 100)
                  => ctx.result = ctx.text

\* the text of 50 characters, returned whole
C12_Witness ==
    /\ pc = "extracted"
    /\ Len(ctx.text) = 50
    /\ ctx.start = 10 /\ ctx.end = 20 /\ ctx.window = DefaultWindow
    /\ Len(ctx.result) = 50

\* C15: on the page, once an Analyze attempt is over, and after any run of the
\* script in which Analyze was not pressed, no temporary copy of the uploaded
\* document is left.
C15_NoTemporaryCopyLeft ==
    (caller = "app" /\ pc = "idle") => tmp_files = 0

\* C16: the evaluator has removed the test file whenever evaluate_single_case
\* has been left, by return or by exception; a case that raises stops the run:
\* no later case is started (every case started earlier has its result) and
\* no report is generated.
C16_EvaluatorCleansUpAndStops ==
    caller = "evaluator" =>
        /\ pc \in {"idle", "stopped", "done"} => tmp_files = 0
        /\ pc \in {"idle", "done"} => eval_results = analyses
        /\ (pc = "stopped" /\ analyzer = "ready") =>
              /\ outcome.kind = "error"
              /\ eval_results = analyses - 1
              /\ ~report
        /\ report => /\ eval_results = MaxAnalyses
                     /\ outcome.kind = "result"

\* the first test case raised: its file is gone, the second case was never
\* started and there is no report
C16_Witness ==
    /\ caller = "evaluator"
    /\ pc = "stopped"
    /\ outcome.kind = "error"
    /\ analyses = 1
    /\ analyses < MaxAnalyses
    /\ eval_results = 0
    /\ tmp_files = 0
    /\ ~report

====
